---- MODULE Spec2Model ----
(***************************************************************************)
(* Model of src/lib.rs of string-replace-all: the free function            *)
(* string_replace_all, the trait method StringReplaceAll::replace_all on   *)
(* String and on str, and the Pattern enum they dispatch on.               *)
(*                                                                         *)
(* Strings are sequences of one-character strings.  The operations of the  *)
(* standard library and of the regex crate that lib.rs calls (str::replace,*)
(* regex::escape, Regex::new, Regex::replace_all with a &str replacer) are *)
(* operators that compute what those calls compute.                        *)
(***************************************************************************)
EXTENDS Integers, Sequences, FiniteSets, TLC

\* ------------------------------------------------------------------ bounds

MaxInputLen == 3
MaxPatternLen == 2
MaxReplacementLen == 2

\* The characters a call draws its three strings from.  The first alphabet
\* has an identifier letter, a digit and the replacer's '$' (a regex
\* metacharacter too); the second has '*', a metacharacter whose unescaped
\* use is a syntax error.
Alphabets == {{"a", "0", "$"}, {"a", "*"}}

Strings(A, n) == UNION {[1..k -> A] : k \in 0..n}

\* ------------------------------------------------------- character classes

Digits == {"0", "1", "2", "3", "4", "5", "6", "7", "8", "9"}

Letters ==
  {"a", "b", "c", "d", "e", "f", "g", "h", "i", "j", "k", "l", "m",
   "n", "o", "p", "q", "r", "s", "t", "u", "v", "w", "x", "y", "z",
   "A", "B", "C", "D", "E", "F", "G", "H", "I", "J", "K", "L", "M",
   "N", "O", "P", "Q", "R", "S", "T", "U", "V", "W", "X", "Y", "Z"}

\* The characters regex::escape puts a backslash before.
MetaChars ==
  {"\\", ".", "+", "*", "?", "(", ")", "|", "[", "]", "{", "}", "^", "$",
   "#", "&", "-", "~"}

\* A character of an unbraced capture reference in a replacement: [0-9A-Za-z_].
IsCapLetter(c) == c \in Digits \cup Letters \cup {"_"}

\* ---------------------------------------------------------------- Pattern

\* A compiled regex: a concatenation of items, each a literal character or
\* the end anchor, each optionally starred; the whole optionally wrapped in
\* a non-capturing group repeated one or more times.
LitItem(c) == [kind |-> "lit", ch |-> c, star |-> FALSE]
StarItem(c) == [kind |-> "lit", ch |-> c, star |-> TRUE]
EndItem == [kind |-> "end", ch |-> "$", star |-> FALSE]

NoRegex == [items |-> <<>>, plus |-> FALSE]

\* enum Pattern { Str(&str), Regex(Regex) } and its two From impls.
PatternStr(s) == [kind |-> "Str", s |-> s, re |-> NoRegex]
PatternRegex(r) == [kind |-> "Regex", s |-> <<>>, re |-> r]

\* The compiled regexes a caller passes: c, c* and c+ for a character c.
Regexes(A) ==
  {[items |-> <<LitItem(c)>>, plus |-> FALSE] : c \in A}
    \cup {[items |-> <<StarItem(c)>>, plus |-> FALSE] : c \in A}
    \cup {[items |-> <<LitItem(c)>>, plus |-> TRUE] : c \in A}

Patterns(A) ==
  {PatternStr(s) : s \in Strings(A, MaxPatternLen)}
    \cup {PatternRegex(r) : r \in Regexes(A)}

\* ------------------------------------------------------------ str::replace

OccursAt(s, p, i) ==
  /\ i + Len(p) - 1 <= Len(s)
  /\ SubSeq(s, i, i + Len(p) - 1) = p

\* The searcher of match_indices: the first position >= pos where from
\* occurs (0: none).  An empty needle occurs at every boundary 1..Len(s)+1.
RECURSIVE NextMatch(_, _, _)
NextMatch(s, from, pos) ==
  IF pos > Len(s) + 1 THEN 0
  ELSE IF OccursAt(s, from, pos) THEN pos
  ELSE NextMatch(s, from, pos + 1)

\* The loop of str::replace: copy the text since the last match, push `to`,
\* move past the match; after the last match copy the rest.
RECURSIVE StrReplaceLoop(_, _, _, _, _)
RECURSIVE StrReplaceStep(_, _, _, _, _)
StrReplaceLoop(s, from, to, pos, last_end) ==
  StrReplaceStep(s, from, to, last_end, NextMatch(s, from, pos))

\* One turn of the loop, `start` the next match (0: none).
StrReplaceStep(s, from, to, last_end, start) ==
  IF start = 0 THEN SubSeq(s, last_end, Len(s))
  ELSE SubSeq(s, last_end, start - 1) \o to
         \o StrReplaceLoop(s, from, to,
                           IF from = <<>> THEN start + 1 ELSE start + Len(from),
                           start + Len(from))

\* str::replacen(from, to, 1) in place of str::replace: the first match only.
StrReplaceFirstOnly(s, from, to) ==
  LET start == NextMatch(s, from, 1) IN
  IF start = 0 THEN s
  ELSE SubSeq(s, 1, start - 1) \o to \o SubSeq(s, start + Len(from), Len(s))

StrReplace(s, from, to) == StrReplaceLoop(s, from, to, 1, 1)

\* ------------------------------------------------------------ regex::escape

\* The replacement put into the cleanup pattern without regex::escape.
EscapeNothing(s) == s

RECURSIVE Escape(_)
Escape(s) ==
  IF s = <<>> THEN <<>>
  ELSE (IF Head(s) \in MetaChars THEN <<"\\", Head(s)>> ELSE <<Head(s)>>)
         \o Escape(Tail(s))

\* format!("(?:{}+", escaped): the group left unclosed.
CleanupSourceUnclosed(escaped) == <<"(", "?", ":">> \o escaped \o <<"+">>

\* format!("(?:{})+", escaped)
CleanupSource(escaped) == <<"(", "?", ":">> \o escaped \o <<")", "+">>

\* --------------------------------------------------------------- Regex::new

ParseErr == [ok |-> FALSE, re |-> NoRegex]
ParseOk(items) == [ok |-> TRUE, re |-> [items |-> items, plus |-> TRUE]]

\* The body of the group, from position i, with the items parsed so far.
\* A backslash makes the metacharacter after it a literal; '*' stars the item
\* before it and is an error with none before it; '$' is the end anchor; ')'
\* closes the group, which the source follows with '+' and nothing else.
\* Syntax beyond that (nested groups, classes, other escapes) is rejected.
RECURSIVE ParseBody(_, _, _)
ParseBody(src, i, items) ==
  IF i > Len(src) THEN ParseErr
  ELSE LET c == src[i] IN
    IF c = ")" THEN
      IF i + 1 = Len(src) /\ src[i + 1] = "+" THEN ParseOk(items) ELSE ParseErr
    ELSE IF c = "\\" THEN
      IF i + 1 <= Len(src) /\ src[i + 1] \in MetaChars
        THEN ParseBody(src, i + 2, Append(items, LitItem(src[i + 1])))
        ELSE ParseErr
    ELSE IF c = "*" THEN
      IF items = <<>> THEN ParseErr
      ELSE ParseBody(src, i + 1,
                     [items EXCEPT ![Len(items)].star = TRUE])
    ELSE IF c = "$" THEN ParseBody(src, i + 1, Append(items, EndItem))
    ELSE IF c \in MetaChars THEN ParseErr
    ELSE ParseBody(src, i + 1, Append(items, LitItem(c)))

\* Regex::new on a source of the form "(?:" body ")+": Ok(regex) or Err.
RegexNew(src) ==
  IF Len(src) >= 3 /\ SubSeq(src, 1, 3) = <<"(", "?", ":">>
    THEN ParseBody(src, 4, <<>>)
    ELSE ParseErr

\* ------------------------------------------------------------ regex matching

\* The number of consecutive copies of character c in s from position pos.
RECURSIVE RunLen(_, _, _)
RunLen(s, c, pos) ==
  IF pos <= Len(s) /\ s[pos] = c THEN 1 + RunLen(s, c, pos + 1) ELSE 0

\* The end (the position after the last character) of the match of
\* items[idx..] at pos that the engine prefers, 0 when there is none: a
\* starred item takes as many characters as it can and gives them back one
\* at a time until the rest matches.
RECURSIVE MatchItems(_, _, _, _)
RECURSIVE MatchStar(_, _, _, _, _)
RECURSIVE MatchStarTry(_, _, _, _, _, _)
MatchItems(items, idx, s, pos) ==
  IF idx > Len(items) THEN pos
  ELSE LET it == items[idx] IN
    IF it.kind = "end" THEN
      IF it.star \/ pos = Len(s) + 1
        THEN MatchItems(items, idx + 1, s, pos) ELSE 0
    ELSE IF it.star THEN MatchStar(items, idx, s, pos, RunLen(s, it.ch, pos))
    ELSE IF pos <= Len(s) /\ s[pos] = it.ch
      THEN MatchItems(items, idx + 1, s, pos + 1) ELSE 0

MatchStar(items, idx, s, pos, k) ==
  MatchStarTry(items, idx, s, pos, k, MatchItems(items, idx + 1, s, pos + k))

\* The star has taken k characters and the rest then ends at e (0: fails).
MatchStarTry(items, idx, s, pos, k, e) ==
  IF e # 0 THEN e
  ELSE IF k = 0 THEN 0
  ELSE MatchStar(items, idx, s, pos, k - 1)

\* (?:items)+ greedy: one iteration, then as many more as match; an
\* iteration that consumes nothing ends the repetition.
OrElse(e2, e1) == IF e2 = 0 THEN e1 ELSE e2

RECURSIVE MatchPlus(_, _, _)
RECURSIVE MatchPlusMore(_, _, _, _)
MatchPlus(items, s, pos) ==
  MatchPlusMore(items, s, pos, MatchItems(items, 1, s, pos))

\* The first iteration ends at e1 (0: fails).
MatchPlusMore(items, s, pos, e1) ==
  IF e1 = 0 THEN 0
  ELSE IF e1 = pos THEN pos
  ELSE OrElse(MatchPlus(items, s, e1), e1)

MatchAt(re, s, pos) ==
  IF re.plus THEN MatchPlus(re.items, s, pos)
  ELSE MatchItems(re.items, 1, s, pos)

\* The leftmost match starting at or after `start`: <<start, end>>, or
\* <<0, 0>> when there is none.
RECURSIVE RegexFind(_, _, _)
RECURSIVE RegexFindAt(_, _, _, _)
RegexFind(re, s, start) ==
  IF start > Len(s) + 1 THEN <<0, 0>>
  ELSE RegexFindAt(re, s, start, MatchAt(re, s, start))

\* The match at `start` ends at e (0: none there, try the next position).
RegexFindAt(re, s, start, e) ==
  IF e # 0 THEN <<start, e>> ELSE RegexFind(re, s, start + 1)

\* ------------------------------------------- the &str replacer's expansion

AllZeroDigits(name) == \A i \in 1..Len(name) : name[i] = "0"

\* The end of the run of capture-reference letters starting at i.
RECURSIVE CapEnd(_, _)
CapEnd(rep, i) ==
  IF i <= Len(rep) /\ IsCapLetter(rep[i]) THEN CapEnd(rep, i + 1) ELSE i

\* The first position >= i holding '}' (0: none).
RECURSIVE CloseBrace(_, _)
CloseBrace(rep, i) ==
  IF i > Len(rep) THEN 0
  ELSE IF rep[i] = "}" THEN i
  ELSE CloseBrace(rep, i + 1)

\* The text of the referenced group.  The regexes here have no capture
\* group but group 0, the whole match; a reference to any other group, by
\* number or by name, expands to the empty string.
GroupText(name, m) ==
  IF name # <<>> /\ AllZeroDigits(name) THEN m ELSE <<>>

\* Captures::expand on rep from position i, m the text of the match:
\* "$$" is a '$'; "$name" and "${name}" are the group's text; a '$' that
\* starts no reference is itself.
RECURSIVE ExpandFrom(_, _, _)
RECURSIVE ExpandBraced(_, _, _, _)
RECURSIVE ExpandUnbraced(_, _, _, _)
ExpandFrom(rep, i, m) ==
  IF i > Len(rep) THEN <<>>
  ELSE IF rep[i] # "$" THEN <<rep[i]>> \o ExpandFrom(rep, i + 1, m)
  ELSE IF i + 1 <= Len(rep) /\ rep[i + 1] = "$"
    THEN <<"$">> \o ExpandFrom(rep, i + 2, m)
  ELSE IF i + 1 <= Len(rep) /\ rep[i + 1] = "{"
    THEN ExpandBraced(rep, i, m, CloseBrace(rep, i + 2))
  ELSE ExpandUnbraced(rep, i, m, CapEnd(rep, i + 1))

\* "${name}" at i, j the position of its '}' (0: none, the '$' is literal).
ExpandBraced(rep, i, m, j) ==
  IF j = 0 THEN <<"$">> \o ExpandFrom(rep, i + 1, m)
  ELSE GroupText(SubSeq(rep, i + 2, j - 1), m) \o ExpandFrom(rep, j + 1, m)

\* "$name" at i, e the end of the name (i + 1: no name, the '$' is literal).
ExpandUnbraced(rep, i, m, e) ==
  IF e = i + 1 THEN <<"$">> \o ExpandFrom(rep, i + 1, m)
  ELSE GroupText(SubSeq(rep, i + 1, e - 1), m) \o ExpandFrom(rep, e, m)

Expand(rep, m) == ExpandFrom(rep, 1, m)

\* -------------------------------------------------------- Regex::replace_all

\* The loop over the non-overlapping matches: search from `from`; an empty
\* match that ends where the last match ended is skipped by searching again
\* one position on; each match is replaced by the expansion of rep.
SkipOverlappingEmpty(re, s, from, last_match, m0) ==
  IF m0[1] # 0 /\ m0[1] = m0[2] /\ m0[2] = last_match
    THEN RegexFind(re, s, from + 1) ELSE m0

RECURSIVE RegexReplaceLoop(_, _, _, _, _, _)
RECURSIVE RegexReplaceStep(_, _, _, _, _)
RegexReplaceLoop(re, s, rep, from, last_end, last_match) ==
  RegexReplaceStep(re, s, rep, last_end,
                   SkipOverlappingEmpty(re, s, from, last_match,
                                        RegexFind(re, s, from)))

\* One turn of the loop, m the next match (<<0, 0>>: none).
RegexReplaceStep(re, s, rep, last_end, m) ==
  IF m[1] = 0 THEN SubSeq(s, last_end, Len(s))
  ELSE SubSeq(s, last_end, m[1] - 1)
         \o Expand(rep, SubSeq(s, m[1], m[2] - 1))
         \o RegexReplaceLoop(re, s, rep, m[2], m[2], m[2])

RegexReplaceAll(re, s, rep) == RegexReplaceLoop(re, s, rep, 1, 1, 0)

\* ------------------------------------------------------ string_replace_all

\* A call's outcome: the String it returns, or the panic of an unwrap.
Returned(s) == [panic |-> FALSE, value |-> s]
Panicked == [panic |-> TRUE, value |-> <<>>]

\* The fast path without its `s.is_empty()` test.
FastPathNoEmptyCheck(s, replacement) == s = replacement

\* The fast path without its `s == replacement` test.
FastPathNoEqualCheck(s, replacement) == s = <<>>

\* No fast path at all.
FastPathNever(s, replacement) == FALSE

\* `s == replacement || s.is_empty()`
FastPath(s, replacement) == s = replacement \/ s = <<>>

\* The match on pattern.into() of string_replace_all, past the fast path.
Substitute(input, pattern, replacement) ==
  IF pattern.kind = "Str" THEN StrReplace(input, pattern.s, replacement)
  ELSE RegexReplaceAll(pattern.re, input, replacement)

\* `!replacement.is_empty()`
NeedsCleanup(replacement) == replacement # <<>>

\* The cleanup block: compile "(?:" escape(replacement) ")+", unwrap it, and
\* replace all its matches in result with replacement.
CleanupWith(cleanup_pattern, result, replacement) ==
  IF ~cleanup_pattern.ok THEN Panicked
  ELSE Returned(RegexReplaceAll(cleanup_pattern.re, result, replacement))

Cleanup(result, replacement) ==
  CleanupWith(RegexNew(CleanupSource(Escape(replacement))), result, replacement)

string_replace_all(input, pattern, replacement) ==
  IF pattern.kind = "Str" /\ FastPath(pattern.s, replacement)
    THEN Returned(input)
  ELSE LET result == Substitute(input, pattern, replacement) IN
    IF NeedsCleanup(replacement) THEN Cleanup(result, replacement)
    ELSE Returned(result)

\* ------------------------------------------- StringReplaceAll::replace_all

\* The trait method delegating to the free function, cleanup and all.
replace_all_via_free(self, pattern, replacement) ==
  string_replace_all(self, pattern, replacement)

\* impl StringReplaceAll for String
replace_all_String(self, pattern, replacement) ==
  IF pattern.kind = "Str" THEN Returned(StrReplace(self, pattern.s, replacement))
  ELSE Returned(RegexReplaceAll(pattern.re, self, replacement))

\* impl StringReplaceAll for str: self.to_string().replace_all(..)
replace_all_str(self, pattern, replacement) ==
  replace_all_String(self, pattern, replacement)

\* ------------------------------------------------------------ state machine

VARIABLES
  input,        \* the text of the call
  pattern,      \* its Pattern
  replacement,  \* its replacement
  op,           \* the last call made: "start" before any
  result,       \* the String the last call returned
  panicked,     \* whether the last call panicked
  first         \* the result of the call before the last one

vars == <<input, pattern, replacement, op, result, panicked, first>>

args == <<input, pattern, replacement>>

\* The call ends: its String is returned, or its panic is raised.
Deliver(out) ==
  /\ result' = out.value
  /\ panicked' = out.panic

InitOver(A) ==
  /\ input \in Strings(A, MaxInputLen)
  /\ pattern \in Patterns(A)
  /\ replacement \in Strings(A, MaxReplacementLen)
  /\ op = "start"
  /\ result = <<>>
  /\ panicked = FALSE
  /\ first = <<>>

Init == \E A \in Alphabets : InitOver(A)

\* string_replace_all(input, pattern, replacement)
CallStringReplaceAll ==
  /\ op = "start"
  /\ Deliver(string_replace_all(input, pattern, replacement))
  /\ op' = "string_replace_all"
  /\ UNCHANGED <<args, first>>

\* input.to_string().replace_all(pattern, replacement)
CallReplaceAllString ==
  /\ op = "start"
  /\ Deliver(replace_all_String(input, pattern, replacement))
  /\ op' = "replace_all_String"
  /\ UNCHANGED <<args, first>>

\* input.replace_all(pattern, replacement) on the &str
CallReplaceAllStr ==
  /\ op = "start"
  /\ Deliver(replace_all_str(input, pattern, replacement))
  /\ op' = "replace_all_str"
  /\ UNCHANGED <<args, first>>

\* A chained call, as the tests chain them: the returned String is the next
\* call's input, here with the replacement as the literal pattern too:
\* string_replace_all(&result, replacement, replacement).
CallAgain ==
  /\ op = "string_replace_all"
  /\ ~panicked
  /\ Deliver(string_replace_all(result, PatternStr(replacement), replacement))
  /\ first' = result
  /\ op' = "recollapse"
  /\ UNCHANGED args

Next ==
  \/ CallStringReplaceAll
  \/ CallReplaceAllString
  \/ CallReplaceAllStr
  \/ CallAgain

Spec == Init /\ [][Next]_vars

\* ------------------------------------------------- reference definitions

Contains(s, t) == \E i \in 1..(Len(s) + 1) : OccursAt(s, t, i)

\* The occurrences of p in s taken scanning left to right without overlap:
\* position i is taken when p stands there and no occurrence taken before
\* it reaches i.
RefStandsAt(s, p, i) ==
  \A k \in 1..Len(p) : i + k - 1 <= Len(s) /\ s[i + k - 1] = p[k]

RECURSIVE RefTaken(_, _, _)
RefTaken(s, p, i) ==
  IF i = 0 THEN {}
  ELSE LET before == RefTaken(s, p, i - 1) IN
    IF RefStandsAt(s, p, i) /\ \A j \in before : j + Len(p) <= i
      THEN before \cup {i} ELSE before

\* s with each taken occurrence of p replaced by r, nothing else changed.
RECURSIVE RefPieces(_, _, _, _, _)
RefPieces(s, p, r, taken, i) ==
  IF i > Len(s) + 1 THEN <<>>
  ELSE (IF i \in taken THEN r ELSE <<>>)
         \o (IF i <= Len(s) /\ ~\E j \in taken : j <= i /\ i < j + Len(p)
               THEN <<s[i]>> ELSE <<>>)
         \o RefPieces(s, p, r, taken, i + 1)

RefSubstitute(s, p, r) == RefPieces(s, p, r, RefTaken(s, p, Len(s) + 1), 1)

\* The number of back-to-back copies of r standing in s at position i.
RECURSIVE RefCopies(_, _, _)
RefCopies(s, r, i) ==
  IF RefStandsAt(s, r, i) THEN 1 + RefCopies(s, r, i + Len(r)) ELSE 0

\* s with each maximal run of back-to-back copies of r (r non-empty), found
\* scanning left to right, replaced by one copy of r.
RECURSIVE RefCollapseFrom(_, _, _)
RefCollapseFrom(s, r, i) ==
  IF i > Len(s) THEN <<>>
  ELSE IF RefStandsAt(s, r, i)
    THEN r \o RefCollapseFrom(s, r, i + Len(r) * RefCopies(s, r, i))
  ELSE <<s[i]>> \o RefCollapseFrom(s, r, i + 1)

RefCollapse(s, r) == RefCollapseFrom(s, r, 1)

\* The call just made is string_replace_all(input, pattern, replacement).
AfterFree == op = "string_replace_all"

\* The call just made is input.replace_all(pattern, replacement).
AfterTrait == op \in {"replace_all_String", "replace_all_str"}

\* A literal pattern that does not take the fast path.
SlowLiteral ==
  /\ pattern.kind = "Str"
  /\ pattern.s # <<>>
  /\ pattern.s # replacement

\* ------------------------------------------------------------------ claims

\* C1: for a non-empty literal pattern p # r, string_replace_all returns
\* the input with every left-to-right non-overlapping occurrence of p
\* replaced by r and then, when r is non-empty, every maximal run of
\* back-to-back copies of r replaced by one copy of r.
C1_SubstituteThenCollapse ==
  (AfterFree /\ SlowLiteral) =>
    /\ ~panicked
    /\ result =
         LET mid == RefSubstitute(input, pattern.s, replacement) IN
         IF replacement = <<>> THEN mid ELSE RefCollapse(mid, replacement)

\* C2: for a non-empty replacement r and a pattern off the fast path, the
\* output of string_replace_all never holds r immediately followed by r.
C2_NoAdjacentCopies ==
  (AfterFree /\ replacement # <<>> /\ (pattern.kind = "Regex" \/ SlowLiteral)) =>
    ~Contains(result, replacement \o replacement)

\* C3: when the literal pattern is empty or equals the replacement,
\* string_replace_all returns the input as it is, runs of r included.
C3_FastPathReturnsInput ==
  (AfterFree /\ pattern.kind = "Str"
     /\ (pattern.s = <<>> \/ pattern.s = replacement)) =>
    ~panicked /\ result = input

C3_Witness ==
  /\ AfterFree
  /\ pattern.kind = "Str"
  /\ pattern.s = replacement
  /\ replacement # <<>>
  /\ Contains(input, replacement \o replacement)
  /\ result = input

\* C4: with the empty replacement and a non-empty literal pattern p,
\* string_replace_all returns the input with every left-to-right
\* non-overlapping occurrence of p deleted and nothing else changed.
C4_EmptyReplacementDeletes ==
  (AfterFree /\ pattern.kind = "Str" /\ pattern.s # <<>> /\ replacement = <<>>) =>
    ~panicked /\ result = RefSubstitute(input, pattern.s, <<>>)

C4_Witness ==
  /\ AfterFree
  /\ pattern.kind = "Str"
  /\ Len(pattern.s) = 2
  /\ replacement = <<>>
  /\ Len(input) = 3
  /\ Len(result) = 1

\* C5: the cleanup step puts back one verbatim copy of the replacement for
\* each of its matches, so when a literal pattern off the fast path occurs in
\* the input, the output holds the replacement character for character.
C5_ReplacementVerbatim ==
  (AfterFree /\ SlowLiteral /\ Contains(input, pattern.s)) =>
    ~panicked /\ Contains(result, replacement)

\* C6: on the empty input string_replace_all returns the empty string, for
\* every pattern, literal or regex, and every replacement.
C6_EmptyInputEmptyOutput ==
  (AfterFree /\ input = <<>>) => (~panicked /\ result = <<>>)

\* C6, amended: on the empty input string_replace_all returns the empty
\* string for every literal pattern and for every regex that does not match
\* the empty string, whatever the replacement.
C6_EmptyInputNoEmptyMatch ==
  (AfterFree /\ input = <<>>
     /\ (pattern.kind = "Str" \/ MatchAt(pattern.re, <<>>, 1) = 0)) =>
    ~panicked /\ result = <<>>

C6_Witness ==
  /\ AfterFree
  /\ input = <<>>
  /\ pattern.kind = "Regex"
  /\ MatchAt(pattern.re, <<>>, 1) = 0
  /\ replacement # <<>>
  /\ result = <<>>

C8_RecollapseIsNoOp ==
  (op = "recollapse" /\ pattern.kind = "Str" /\ replacement # <<>>) =>
    ~panicked /\ result = first

C8_Witness ==
  /\ op = "recollapse"
  /\ pattern.kind = "Str"
  /\ replacement # <<>>
  /\ first # input
  /\ Contains(first, replacement)
  /\ result = first

\* C9: when the non-empty literal pattern p does not occur in the input,
\* string_replace_all returns the input unchanged, whatever the replacement.
C9_NoOccurrenceReturnsInput ==
  (AfterFree /\ pattern.kind = "Str" /\ pattern.s # <<>>
     /\ ~Contains(input, pattern.s)) =>
    ~panicked /\ result = input

\* C9, amended: when the non-empty literal pattern p does not occur in the
\* input, and the replacement is empty or does not occur in the input
\* either, string_replace_all returns the input unchanged.
C9_NoOccurrenceNoReplacementText ==
  (AfterFree /\ pattern.kind = "Str" /\ pattern.s # <<>>
     /\ ~Contains(input, pattern.s)
     /\ (replacement = <<>> \/ ~Contains(input, replacement))) =>
    ~panicked /\ result = input

C9_Witness ==
  /\ AfterFree
  /\ pattern.kind = "Str"
  /\ pattern.s # <<>>
  /\ ~Contains(input, pattern.s)
  /\ replacement # <<>>
  /\ ~Contains(input, replacement)
  /\ Len(input) >= 2
  /\ result = input

\* C10: the trait method replace_all with a literal pattern is plain
\* substitution: every left-to-right non-overlapping occurrence replaced, no
\* collapse of adjacent copies and no fast path, so that its result can
\* differ from string_replace_all's on the same arguments.
C10_TraitPlainSubstitution ==
  (AfterTrait /\ pattern.kind = "Str") =>
    ~panicked /\ result = RefSubstitute(input, pattern.s, replacement)

C10_Witness ==
  /\ AfterTrait
  /\ pattern.kind = "Str"
  /\ replacement # <<>>
  /\ Contains(result, replacement \o replacement)
  /\ ~Contains(input, replacement)
  /\ result # string_replace_all(input, pattern, replacement).value

====
